---- MODULE Spec2Model ----
(***************************************************************************)
(* A model of the nested-grouping backend of sqlc-gen-go:                  *)
(*   - the naming engine (ToPascalCaseWithInitialisms, PascalToSnakeCase), *)
(*   - the grouping function emitted by nestedTemplate,                    *)
(*   - the composite registry, the nesting-tree resolver and the           *)
(*     structural validator of one generation run.                         *)
(* Three specifications share the module: SpecNaming, SpecGroup and Spec   *)
(* (the generation run).  Each leaves the other parts' variables alone.    *)
(***************************************************************************)
EXTENDS Integers, Sequences, FiniteSets, TLC

VARIABLES
    \* naming engine
    word, once, twice, npc,
    inflected,              \* the inflected forms of the names of a generation run
    \* generated grouping function
    shape, rows, heap, rootMap, appendLog, result, pc,
    \* one generation run (Generate)
    phase,                  \* the step of Generate the run has reached
    options,                \* options.Nested: Composites and Queries
    nested,                 \* []Nested: source files with their configs and data items
    compositeStructRegistry,\* the global registry, keyed by fragment name
    fileIndex,              \* populateNestedDataItems: index of the file in work
    configIndex,            \* buildNestedDataItems: configs of the file done so far
    nestedDataItems,        \* buildNestedDataItems: the items built for the file
    generatedStructRoots,   \* buildNestedDataItems: struct_root -> first query
    failure,                \* the error Generate returns, or the crash that ends it
    output,                 \* generate: the files executed so far
    response                \* what Generate returns: "nil" or the files of the response

namingVars == <<word, once, twice, npc, inflected>>
groupVars  == <<shape, rows, heap, rootMap, appendLog, result, pc>>
genVars    == <<phase, options, nested, compositeStructRegistry, fileIndex,
                configIndex, nestedDataItems, generatedStructRoots, failure>>
emitVars == <<output, response>>
vars == <<namingVars, groupVars, genVars, emitVars>>

-----------------------------------------------------------------------------
(* Generic helpers *)

RECURSIVE Concat(_)
Concat(ss) == IF ss = <<>> THEN <<>> ELSE Head(ss) \o Concat(Tail(ss))

Range(s) == {s[i] : i \in 1..Len(s)}

RECURSIVE SetToSeqs(_)
\* every ordering of a finite set, as sequences
SetToSeqs(S) ==
    IF S = {} THEN {<<>>}
    ELSE UNION {{<<x>> \o t : t \in SetToSeqs(S \ {x})} : x \in S}

-----------------------------------------------------------------------------
(* 1. Naming engine.  A Go string is a sequence of one-character strings.  *)

LowerAlpha == <<"a","b","c","d","e","f","g","h","i","j","k","l","m",
                "n","o","p","q","r","s","t","u","v","w","x","y","z">>
UpperAlpha == <<"A","B","C","D","E","F","G","H","I","J","K","L","M",
                "N","O","P","Q","R","S","T","U","V","W","X","Y","Z">>

IsUpper(c) == \E i \in 1..Len(UpperAlpha) : UpperAlpha[i] = c
IsLower(c) == \E i \in 1..Len(LowerAlpha) : LowerAlpha[i] = c

ToUpperChar(c) ==
    IF IsLower(c) THEN UpperAlpha[CHOOSE i \in 1..Len(LowerAlpha) : LowerAlpha[i] = c]
    ELSE c
ToLowerChar(c) ==
    IF IsUpper(c) THEN LowerAlpha[CHOOSE i \in 1..Len(UpperAlpha) : UpperAlpha[i] = c]
    ELSE c

\* strings.ToUpper / strings.ToLower
ToUpper(s) == [i \in 1..Len(s) |-> ToUpperChar(s[i])]
ToLower(s) == [i \in 1..Len(s) |-> ToLowerChar(s[i])]

\* strings.Contains(s, "_")
ContainsUnderscore(s) == \E i \in 1..Len(s) : s[i] = "_"

RECURSIVE SplitFrom(_, _, _)
SplitFrom(s, i, cur) ==
    IF i > Len(s) THEN <<cur>>
    ELSE IF s[i] = "_" THEN <<cur>> \o SplitFrom(s, i + 1, <<>>)
    ELSE SplitFrom(s, i + 1, Append(cur, s[i]))

\* strings.Split(s, "_"): the parts between underscores, empty parts included
Split(s) == SplitFrom(s, 1, <<>>)

\* commonInitialisms
commonInitialisms == {
    <<"A","C","L">>, <<"A","P","I">>, <<"A","S","C","I","I">>, <<"C","P","U">>,
    <<"C","S","S">>, <<"D","N","S">>, <<"E","O","F">>, <<"G","U","I","D">>,
    <<"H","T","M","L">>, <<"H","T","T","P">>, <<"H","T","T","P","S">>, <<"I","D">>,
    <<"I","P">>, <<"J","S","O","N">>, <<"L","H","S">>, <<"Q","P","S">>,
    <<"R","A","M">>, <<"R","H","S">>, <<"R","P","C">>, <<"S","L","A">>,
    <<"S","M","T","P">>, <<"S","Q","L">>, <<"S","S","H">>, <<"T","C","P">>,
    <<"T","L","S">>, <<"T","T","L">>, <<"U","D","P">>, <<"U","I">>,
    <<"U","I","D">>, <<"U","U","I","D">>, <<"U","R","I">>, <<"U","R","L">>,
    <<"U","T","F","8">>, <<"V","M">>, <<"X","M","L">>, <<"X","M","P","P">>,
    <<"X","S","R","F">>, <<"X","S","S">> }

RECURSIVE UpperRunEnd(_, _)
\* the last index of the run of upper-case letters that starts at index i
UpperRunEnd(s, i) ==
    IF i < Len(s) /\ IsUpper(s[i + 1]) THEN UpperRunEnd(s, i + 1) ELSE i

RECURSIVE namingCamelReplace(_, _)
\* namingCamelPattern.ReplaceAllStringFunc(s, x -> x[:1] + "_" + x[1:]) from
\* index i on: the leftmost, non-overlapping matches of [^A-Z][A-Z]+
namingCamelReplace(s, i) ==
    IF i > Len(s) THEN <<>>
    ELSE IF i < Len(s) /\ ~IsUpper(s[i]) /\ IsUpper(s[i + 1])
         THEN LET j == UpperRunEnd(s, i + 1)
              IN <<s[i], "_">> \o SubSeq(s, i + 1, j) \o namingCamelReplace(s, j + 1)
         ELSE <<s[i]>> \o namingCamelReplace(s, i + 1)

PascalToSnakeCase(s) ==
    IF s = <<>> THEN s ELSE ToLower(namingCamelReplace(s, 1))

\* one part of the loop of ToPascalCaseWithInitialisms
PascalPart(part) ==
    IF part = <<>> THEN <<>>
    ELSE IF ToUpper(part) \in commonInitialisms THEN ToUpper(part)
    ELSE ToUpper(SubSeq(part, 1, 1)) \o ToLower(SubSeq(part, 2, Len(part)))

ToPascalCaseWithInitialisms(s) ==
    IF s = <<>> THEN s
    ELSE LET snakeCase == IF ContainsUnderscore(s) THEN s ELSE PascalToSnakeCase(s)
             parts == Split(snakeCase)
         IN Concat([i \in 1..Len(parts) |-> PascalPart(parts[i])])

-----------------------------------------------------------------------------
(* 1.1 Inflection of names *)

\* flect.Pluralize and flect.Singularize of the external library, on the
\* regular nouns that the names of the runs are made of
flectPluralize(w) ==
    IF w = <<>> \/ w[Len(w)] = "s" THEN w ELSE Append(w, "s")
flectSingularize(w) ==
    IF w # <<>> /\ w[Len(w)] = "s" THEN SubSeq(w, 1, Len(w) - 1) ELSE w

RECURSIVE JoinUnderscore(_)
\* strings.Join(parts, "_")
JoinUnderscore(parts) ==
    IF Len(parts) = 1 THEN parts[1]
    ELSE parts[1] \o <<"_">> \o JoinUnderscore(Tail(parts))

\* the call of a function value of inflectCasePreserving: the function of the
\* library that the value names
flect(inflectFunc, w) ==
    IF inflectFunc = "Pluralize" THEN flectPluralize(w) ELSE flectSingularize(w)

\* the inflection of the whole word, compound or not
inflectWholeWord(w, inflectFunc) ==
    IF w = <<>> THEN w
    ELSE IF IsUpper(w[1])
    THEN ToPascalCaseWithInitialisms(flect(inflectFunc, ToLower(w)))
    ELSE flect(inflectFunc, w)

inflectCasePreserving(w, inflectFunc) ==
    IF w = <<>> THEN w
    ELSE IF IsUpper(w[1])
    THEN LET snakeCase == IF ContainsUnderscore(w) THEN w ELSE PascalToSnakeCase(w)
             parts == Split(snakeCase)
         IN IF Len(parts) > 1
            THEN ToPascalCaseWithInitialisms(JoinUnderscore(
                     [parts EXCEPT ![Len(parts)] = flect(inflectFunc, parts[Len(parts)])]))
            ELSE ToPascalCaseWithInitialisms(flect(inflectFunc, ToLower(w)))
    ELSE flect(inflectFunc, w)

PluralizeCasePreserving(w) == inflectCasePreserving(w, "Pluralize")
SingularizeCasePreserving(w) == inflectCasePreserving(w, "Singularize")

(* Inputs: identifiers of at most MaxTokens tokens, joined with or without *)
(* an underscore (snake_case, PascalCase, camelCase and mixtures).         *)
MaxTokens == 3

Tokens == { <<"i","d">>, <<"I","D">>, <<"I","d">>,
            <<"a","p","i">>, <<"A","P","I">>, <<"A","p","i">>,
            <<"k","e","y">>, <<"K","e","y">>,
            <<"K","e","y","s">>, <<"U","R","L">>,
            <<"u","s","e","r">>, <<"U","s","e","r">> }

RECURSIVE Identifiers(_)
Identifiers(n) ==
    IF n = 1 THEN Tokens
    ELSE LET shorter == Identifiers(n - 1)
         IN shorter \cup {x \o sep \o t : x \in shorter, sep \in {<<>>, <<"_">>}, t \in Tokens}

NamingInit ==
    /\ word \in Identifiers(MaxTokens) \cup {<<>>}
    /\ once = <<>>
    /\ twice = <<>>
    /\ npc = "start"
    /\ inflected = <<>>
    \* the other parts of the program are not running
    /\ shape = [Book |-> TRUE, Review |-> TRUE]
    /\ rows = <<>> /\ heap = <<>> /\ rootMap = <<>> /\ appendLog = <<>>
    /\ result = <<>> /\ pc = "idle"
    /\ phase = "idle"
    /\ options = [Composites |-> <<>>, Queries |-> <<>>]
    /\ nested = <<>> /\ compositeStructRegistry = <<>>
    /\ fileIndex = 0 /\ configIndex = 0
    /\ nestedDataItems = <<>> /\ generatedStructRoots = <<>>
    /\ failure = [kind |-> "none"]
    /\ output = <<>> /\ response = "nil"

ApplyOnce ==
    /\ npc = "start"
    /\ once' = ToPascalCaseWithInitialisms(word)
    /\ npc' = "once"
    /\ UNCHANGED <<word, twice, inflected, groupVars, genVars, emitVars>>

ApplyTwice ==
    /\ npc = "once"
    /\ twice' = ToPascalCaseWithInitialisms(once)
    /\ npc' = "twice"
    /\ UNCHANGED <<word, once, inflected, groupVars, genVars, emitVars>>

\* PluralizeCasePreserving and SingularizeCasePreserving of the identifier
ApplyInflection ==
    /\ npc = "start"
    /\ inflected' = [plural   |-> PluralizeCasePreserving(word),
                     singular |-> SingularizeCasePreserving(word)]
    /\ npc' = "inflected"
    /\ UNCHANGED <<word, once, twice, groupVars, genVars, emitVars>>

NamingNext == ApplyOnce \/ ApplyTwice \/ ApplyInflection

-----------------------------------------------------------------------------
(* 2. The grouping function emitted by nestedTemplate for the tree         *)
(*    Author (root) -> Book -> Review.  Instances live on a heap, as the   *)
(*    generated code reaches them through pointers; a heap cell carries    *)
(*    the instance's ID and the content of its nested field (the slice, or *)
(*    for a single object the 0 or 1 instance it holds).                   *)

MaxRows == 3

NULL == "NULL"     \* ID.Valid = false
AuthorIDs == {"A1", "A2"}
BookIDs   == {"B1", "B2"}
ReviewIDs == {"R1", "R2"}

RowValues == [ID : AuthorIDs, Book : BookIDs \cup {NULL}, Review : ReviewIDs \cup {NULL}]

\* the IsSlice flags of the Book node and of the Review node
Shapes == [Book : BOOLEAN, Review : BOOLEAN]

NewCell(id) == [ID |-> id, field |-> <<>>]

\* getOrCreate<RootStruct>(map, r)
getOrCreateRoot(h, m, r) ==
    IF r.ID \in DOMAIN m
    THEN [heap |-> h, map |-> m, ret |-> m[r.ID]]
    ELSE [heap |-> Append(h, NewCell(r.ID)),
          map  |-> m @@ (r.ID :> Len(h) + 1),
          ret  |-> Len(h) + 1]

\* getOrCreate without the lookup of an existing instance
getOrCreateAlwaysNew(h, log, parent, key, isSlice) ==
    [heap |-> Append([h EXCEPT ![parent].field =
                          IF isSlice THEN Append(@, Len(h) + 1) ELSE <<Len(h) + 1>>],
                     NewCell(key)),
     log  |-> Append(log, [parent |-> parent, key |-> key,
                           op |-> IF isSlice THEN "append" ELSE "set"]),
     ret  |-> Len(h) + 1]

\* getOrCreate over one table for all parents: an instance with the key that
\* another parent holds is taken over
getOrCreateGlobal(h, log, parent, key, isSlice) ==
    LET known == {c \in 1..Len(h) : h[c].ID = key}
    IN IF known # {}
       THEN LET c == CHOOSE x \in known : \A y \in known : x <= y
            IN [heap |-> IF c \in Range(h[parent].field) THEN h
                         ELSE [h EXCEPT ![parent].field =
                                  IF isSlice THEN Append(@, c) ELSE <<c>>],
                log |-> log, ret |-> c]
       ELSE getOrCreateAlwaysNew(h, log, parent, key, isSlice)

\* getOrCreate<StructOut>(parent, r) for a child or a grandchild node
getOrCreate(h, log, parent, key, isSlice) ==
    LET f == h[parent].field
        hits == {i \in 1..Len(f) : h[f[i]].ID = key}
    IN IF isSlice
       THEN IF hits # {}
            THEN [heap |-> h, log |-> log,
                  ret |-> f[CHOOSE i \in hits : \A j \in hits : i <= j]]
            ELSE [heap |-> Append([h EXCEPT ![parent].field = Append(@, Len(h) + 1)],
                                  NewCell(key)),
                  log  |-> Append(log, [parent |-> parent, key |-> key, op |-> "append"]),
                  ret  |-> Len(h) + 1]
       ELSE IF f # <<>> /\ h[f[1]].ID # NULL /\ h[f[1]].ID = key
            THEN [heap |-> h, log |-> log, ret |-> f[1]]
            ELSE [heap |-> Append([h EXCEPT ![parent].field = <<Len(h) + 1>>],
                                  NewCell(key)),
                  log  |-> Append(log, [parent |-> parent, key |-> key, op |-> "set"]),
                  ret  |-> Len(h) + 1]

\* the loop body without the ID.Valid tests
GroupRowNoPresenceTest(h, m, log, r) ==
    LET a == getOrCreateRoot(h, m, r)
        b == getOrCreate(a.heap, log, a.ret, r.Book, shape.Book)
        c == getOrCreate(b.heap, b.log, b.ret, r.Review, shape.Review)
    IN [heap |-> c.heap, map |-> a.map, log |-> c.log]

\* the body of "for _, r := range rows" of the Group function
GroupRow(h, m, log, r) ==
    LET a == getOrCreateRoot(h, m, r)
    IN IF r.Book # NULL
       THEN LET b == getOrCreate(a.heap, log, a.ret, r.Book, shape.Book)
            IN IF r.Review # NULL
               THEN LET c == getOrCreate(b.heap, b.log, b.ret, r.Review, shape.Review)
                    IN [heap |-> c.heap, map |-> a.map, log |-> c.log]
               ELSE [heap |-> b.heap, map |-> a.map, log |-> b.log]
       ELSE [heap |-> a.heap, map |-> a.map, log |-> log]

\* "for _, x := range <root>Map": Go iterates a map in an unspecified order
MapIterationOrders(m) == SetToSeqs(DOMAIN m)

GroupInit ==
    /\ shape \in Shapes
    /\ rows = <<>>
    /\ heap = <<>>
    /\ rootMap = <<>>
    /\ appendLog = <<>>
    /\ result = <<>>
    /\ pc = "loop"
    \* the other parts of the program are not running
    /\ word = <<>> /\ once = <<>> /\ twice = <<>> /\ npc = "idle"
    /\ inflected = <<>>
    /\ phase = "idle"
    /\ options = [Composites |-> <<>>, Queries |-> <<>>]
    /\ nested = <<>> /\ compositeStructRegistry = <<>>
    /\ fileIndex = 0 /\ configIndex = 0
    /\ nestedDataItems = <<>> /\ generatedStructRoots = <<>>
    /\ failure = [kind |-> "none"]
    /\ output = <<>> /\ response = "nil"

\* one iteration of the loop, on the next row of the input
ProcessRow ==
    /\ pc = "loop"
    /\ Len(rows) < MaxRows
    /\ \E r \in RowValues :
          LET g == GroupRow(heap, rootMap, appendLog, r)
          IN /\ rows' = Append(rows, r)
             /\ heap' = g.heap
             /\ rootMap' = g.map
             /\ appendLog' = g.log
    /\ UNCHANGED <<shape, result, pc, namingVars, genVars, emitVars>>

\* the input is exhausted: collect the roots from the map and return
CollectResult ==
    /\ pc = "loop"
    /\ \E order \in MapIterationOrders(rootMap) :
          result' = [i \in 1..Len(order) |-> rootMap[order[i]]]
    /\ pc' = "done"
    /\ UNCHANGED <<shape, rows, heap, rootMap, appendLog, namingVars, genVars, emitVars>>

GroupNext == ProcessRow \/ CollectResult

-----------------------------------------------------------------------------
(* 3. One generation run: the request                                      *)

\* a *bool option is "nil", "true" or "false"
OptBool == {"nil", "true", "false"}

NoError == [kind |-> "none"]

\* the catalog: []Struct of the request, name -> field names
Structs == [Author |-> <<"ID", "Name">>,
            Book   |-> <<"ID", "Title">>,
            Review |-> <<"ID", "Rating">>]

\* the queries of the request, with the fields of their row struct
Queries == <<
    [MethodName |-> "GetAuthors",  SourceName |-> "authors.sql",
     Fields |-> <<"ID", "Name", "Book", "Review">>],
    [MethodName |-> "ListAuthors", SourceName |-> "authors.sql",
     Fields |-> <<"ID", "Name", "Book">>],
    [MethodName |-> "GetBooks",    SourceName |-> "books.sql",
     Fields |-> <<"ID", "Title", "Review">>] >>

\* a NestedGroupConfig as written in the options: nothing defaulted yet
Node(structIn, structOut, isComposite, group) ==
    [StructIn |-> structIn, StructOut |-> structOut, FieldOut |-> "",
     FieldGroupBy |-> "", IsSlice |-> "nil", IsPointer |-> "nil",
     IsComposite |-> isComposite, Group |-> group]

\* the names of the runs, letter by letter
Spell == [Author |-> <<"A","u","t","h","o","r">>,
          Book |-> <<"B","o","o","k">>,
          Review |-> <<"R","e","v","i","e","w">>,
          AuthorC |-> <<"A","u","t","h","o","r","C">>,
          BookC |-> <<"B","o","o","k","C">>,
          ReviewC |-> <<"R","e","v","i","e","w","C">>,
          AuthorsBook |-> <<"A","u","t","h","o","r","s","B","o","o","k">>,
          Volumes |-> <<"V","o","l","u","m","e","s">>]

\* NestedGroupConfig accessors
GetIsSlice(n)     == n.IsSlice = "nil" \/ n.IsSlice = "true"
GetIsPointer(n)   == n.IsPointer = "nil" \/ n.IsPointer = "true"
GetIsComposite(n) == n.IsComposite = "nil" \/ n.IsComposite = "true"

(* The configurations of the runs: the groups a fragment may declare ...   *)
AuthorGroups == {
    <<>>,
    <<Node("Book", "", "nil", <<>>)>>,
    <<Node("Book", "BookC", "true", <<>>)>>,
    <<Node("Book", "BookC", "true", <<>>), Node("Review", "ReviewC", "true", <<>>)>>,
    <<Node("Book", "AuthorsBook", "false", <<Node("Review", "", "nil", <<>>)>>)>>,
    <<Node("Book", "ReviewC", "true", <<>>)>>,
    <<Node("Book", "BookC", "true", <<>>), Node("Book", "ReviewC", "true", <<>>)>> }

BookGroups == {
    <<>>,
    <<Node("Review", "", "nil", <<>>)>>,
    <<Node("Review", "ReviewC", "true", <<>>)>>,
    <<Node("Book", "BookC", "true", <<>>)>> }

ReviewGroups == {
    <<>>,
    <<Node("Book", "BookC", "true", <<>>)>> }

Fragment(name, rootIn, group) ==
    [Name |-> name, StructRootIn |-> rootIn, Group |-> group]

\* ... the lists of fragments (BookC and ReviewC may be left undeclared) ...
CompositeLists ==
    { a \o b \o r :
        a \in {<<Fragment("AuthorC", rootIn, g)>> :
                   rootIn \in {"Author", "AuthorsRow"}, g \in AuthorGroups},
        b \in {<<>>} \cup {<<Fragment("BookC", "Book", g)>> : g \in BookGroups},
        r \in {<<>>} \cup {<<Fragment("ReviewC", "Review", g)>> : g \in ReviewGroups} }

QueryConfig(query, structRoot, isComposite, group) ==
    [Query |-> query, FieldGroupBy |-> "", StructRoot |-> structRoot,
     Group |-> group, IsComposite |-> isComposite]

\* ... the nesting declaration of one query ...
QueryConfigsOf(query) ==
    { QueryConfig(query, "AuthorC", "true", <<>>),
      QueryConfig(query, "AuthorC", "nil", <<>>),
      QueryConfig(query, "AuthorC", "false", <<Node("Book", "BookC", "true", <<>>)>>),
      QueryConfig(query, "AuthorC", "false",
                  <<Node("Book", "", "nil", <<>>), Node("Review", "", "nil", <<>>)>>),
      QueryConfig(query, "BookC", "true", <<Node("Author", "", "nil", <<>>)>>),
      QueryConfig(query, "", "nil", <<Node("Book", "", "nil", <<>>)>>) }

\* ... declarations with single-valued, value-typed and renamed children,
\* and with a child below an inline child ...
ShapedConfigs ==
    { QueryConfig("GetAuthors", "AuthorC", "false",
          <<[Node("Book", "", "nil", <<>>)
                EXCEPT !.IsSlice = "false", !.IsPointer = "false", !.FieldOut = "Volumes"],
            [Node("Review", "", "nil", <<>>) EXCEPT !.IsPointer = "false"],
            [Node("Author", "", "nil", <<>>) EXCEPT !.IsSlice = "false"]>>),
      QueryConfig("GetAuthors", "AuthorC", "false",
          <<[Node("Book", "AuthorsBook", "false", <<Node("Review", "ReviewC", "nil", <<>>)>>)
                EXCEPT !.IsSlice = "false"]>>) }

\* ... a declaration with the same child twice below an inline child ...
TwinChildConfigs ==
    { QueryConfig("GetAuthors", "AuthorC", "false",
          <<Node("Book", "AuthorsBook", "false",
                 <<Node("Review", "Review", "false", <<>>),
                   Node("Review", "Review", "false", <<>>)>>)>>) }

\* ... and the lists of declarations: one or two queries, each declared once
\* (the declaration with the twin children stands alone);
\* GetPublishers is no query of the request
QueryConfigLists ==
    LET unknown == {QueryConfig("GetPublishers", "AuthorC", "true", <<>>)}
        first  == UNION {QueryConfigsOf(q) : q \in {"GetAuthors", "ListAuthors"}}
                  \cup unknown \cup ShapedConfigs
        second == UNION {QueryConfigsOf(q) : q \in {"GetAuthors", "ListAuthors", "GetBooks"}}
                  \cup unknown
    IN {<<c>> : c \in first \cup TwinChildConfigs}
       \cup UNION {{<<c, d>> : d \in {e \in second : e.Query # c.Query}} : c \in first}

-----------------------------------------------------------------------------
(* 3.1 populateNestedConfigWithDefaultValues *)

populateNestedConfigItemWithDefaultValues(config) ==
    [config EXCEPT
        !.StructOut    = IF @ = "" THEN config.StructIn ELSE @,
        !.IsComposite  = IF @ = "nil" THEN "false" ELSE @,
        !.FieldGroupBy = IF @ = "" THEN "ID" ELSE @,
        !.IsSlice      = IF @ = "nil" THEN "true" ELSE @,
        !.IsPointer    = IF @ = "nil" THEN "true" ELSE @]

\* the items of the group of each query and of each composite; deeper
\* levels are not visited
populateNestedConfigWithDefaultValues(opts) ==
    LET topLevel(cfg) ==
            [cfg EXCEPT !.Group =
                [i \in 1..Len(@) |-> populateNestedConfigItemWithDefaultValues(@[i])]]
    IN [Composites |-> [i \in 1..Len(opts.Composites) |-> topLevel(opts.Composites[i])],
        Queries    |-> [i \in 1..Len(opts.Queries) |-> topLevel(opts.Queries[i])]]

-----------------------------------------------------------------------------
(* 3.2 getNestedSourceWithConfigs *)

\* the first query whose MethodName or SourceName is the given name
FindQuery(name) ==
    LET hits == {i \in 1..Len(Queries) :
                    Queries[i].MethodName = name \/ Queries[i].SourceName = name}
    IN IF hits = {} THEN 0 ELSE CHOOSE i \in hits : \A j \in hits : i <= j

RECURSIVE getNestedSourceWithConfigsFrom(_, _, _)
getNestedSourceWithConfigsFrom(configs, i, sources) ==
    IF i > Len(configs) THEN sources
    ELSE LET q == FindQuery(configs[i].Query)
             sourceFile == IF q = 0 THEN "" ELSE Queries[q].SourceName
             seen == {k \in 1..Len(sources) : sources[k].SourceFileName = sourceFile}
         IN getNestedSourceWithConfigsFrom(configs, i + 1,
                IF sourceFile = "" THEN sources
                ELSE IF seen = {}
                     THEN Append(sources, [SourceFileName |-> sourceFile,
                                           Configs |-> <<configs[i]>>,
                                           NestedDataItems |-> <<>>])
                     ELSE [k \in 1..Len(sources) |->
                              IF k \in seen
                              THEN [sources[k] EXCEPT !.Configs = Append(@, configs[i])]
                              ELSE sources[k]])

getNestedSourceWithConfigs(opts) ==
    getNestedSourceWithConfigsFrom(opts.Queries, 1, <<>>)

-----------------------------------------------------------------------------
(* 3.3 The composite registry *)

\* the depth of recursion at which the Go runtime ends the process with a
\* stack overflow
StackLimit == 8

RECURSIVE mapOfCompositeChildren(_, _)
\* pass 1: nestedFieldToCompositeNameMap, a later child with the same
\* StructIn overwriting an earlier one
mapOfCompositeChildren(group, i) ==
    IF i = 0 THEN <<>>
    ELSE LET rest == mapOfCompositeChildren(group, i - 1)
         IN IF group[i].IsComposite = "true"
            THEN (group[i].StructIn :> group[i].StructOut) @@ rest
            ELSE rest

registerCompositeStructData(config) ==
    [Config |-> config,
     DirectNestedFields |-> [i \in 1..Len(config.Group) |-> config.Group[i].StructIn],
     NestedFieldToCompositeNameMap |-> mapOfCompositeChildren(config.Group, Len(config.Group)),
     EntityFieldsToExclude |-> <<>>,
     IsStructAlreadyGenerated |-> FALSE]

RECURSIVE registerAll(_, _, _)
\* pass 1 over the composites, on top of what the registry already holds
registerAll(composites, i, reg) ==
    IF i > Len(composites) THEN reg
    ELSE registerAll(composites, i + 1,
             (composites[i].Name :> registerCompositeStructData(composites[i])) @@ reg)

RECURSIVE resolveAllTreeCompositeFields(_, _, _, _)
RECURSIVE resolveNestedComposites(_, _, _, _, _)

\* resolveAllTreeCompositeFields(compositeName), called at recursion depth
\* `depth`; `order` is the order in which the maps are iterated
resolveAllTreeCompositeFields(compositeName, reg, order, depth) ==
    IF depth > StackLimit
    THEN [st |-> "crash", fields |-> <<>>, err |-> [kind |-> "stack overflow"]]
    ELSE IF compositeName \notin DOMAIN reg
    THEN [st |-> "error", fields |-> <<>>,
          err |-> [kind |-> "composite not found", missing |-> compositeName]]
    ELSE LET info == reg[compositeName]
             keys == SelectSeq(order, LAMBDA k : k \in DOMAIN info.NestedFieldToCompositeNameMap)
         IN resolveNestedComposites(
                [i \in 1..Len(keys) |-> info.NestedFieldToCompositeNameMap[keys[i]]],
                reg, order, depth, info.DirectNestedFields)

\* the loop of resolveAllTreeCompositeFields over the nested composites
resolveNestedComposites(names, reg, order, depth, entityFields) ==
    IF names = <<>>
    THEN [st |-> "ok", fields |-> entityFields, err |-> NoError]
    ELSE LET r == resolveAllTreeCompositeFields(Head(names), reg, order, depth + 1)
         IN IF r.st # "ok" THEN r
            ELSE resolveNestedComposites(Tail(names), reg, order, depth,
                                         entityFields \o r.fields)

RECURSIVE resolveAllComposites(_, _, _, _)
\* pass 2: EntityFieldsToExclude of every composite, in declaration order
resolveAllComposites(composites, i, reg, order) ==
    IF i > Len(composites) THEN [st |-> "ok", reg |-> reg, err |-> NoError]
    ELSE LET r == resolveAllTreeCompositeFields(composites[i].Name, reg, order, 1)
         IN IF r.st # "ok" THEN [st |-> r.st, reg |-> reg, err |-> r.err]
            ELSE resolveAllComposites(composites, i + 1,
                     [reg EXCEPT ![composites[i].Name].EntityFieldsToExclude = r.fields],
                     order)

buildCompositeStructRegistry(opts, reg, order) ==
    resolveAllComposites(opts.Composites, 1,
                         registerAll(opts.Composites, 1, reg), order)

\* getNestedFields(config)
RECURSIVE getNestedFields(_, _)
getNestedFields(config, reg) ==
    IF config = <<>> THEN <<>>
    ELSE LET n == Head(config)
             own == IF n.IsComposite = "true"
                    THEN IF n.StructOut \in DOMAIN reg
                            /\ Len(reg[n.StructOut].DirectNestedFields) > 0
                         THEN reg[n.StructOut].EntityFieldsToExclude
                         ELSE <<>>
                    ELSE <<n.StructIn>> \o getNestedFields(n.Group, reg)
         IN own \o getNestedFields(Tail(config), reg)

-----------------------------------------------------------------------------
(* 3.4 The structural validator *)

\* a validator that reports only the first missing field
validateCompositeFieldsAgainstEntityFirstMissing(compositeStructName, compositeFields, entityStructName, parentStructName, contextType) ==
    IF entityStructName \notin DOMAIN Structs THEN NoError
    ELSE LET missingFields ==
                 SelectSeq(compositeFields,
                           LAMBDA f : f \notin Range(Structs[entityStructName]))
         IN IF Len(missingFields) > 0
            THEN [kind |-> "schema drift", context |-> contextType,
                  composite |-> compositeStructName, missing |-> <<Head(missingFields)>>,
                  entity |-> entityStructName, parent |-> parentStructName,
                  available |-> Structs[entityStructName]]
            ELSE NoError

\* validateCompositeFieldsAgainstEntity
validateCompositeFieldsAgainstEntity(compositeStructName, compositeFields, entityStructName, parentStructName, contextType) ==
    IF entityStructName \notin DOMAIN Structs THEN NoError
    ELSE LET missingFields ==
                 SelectSeq(compositeFields,
                           LAMBDA f : f \notin Range(Structs[entityStructName]))
         IN IF Len(missingFields) > 0
            THEN [kind |-> "schema drift", context |-> contextType,
                  composite |-> compositeStructName, missing |-> missingFields,
                  entity |-> entityStructName, parent |-> parentStructName,
                  available |-> Structs[entityStructName]]
            ELSE NoError

RECURSIVE validateCompositeFieldsExistInEntity(_, _)
\* the first error in pre-order over the nested structs
validateCompositeFieldsExistInEntity(nestedStructs, parentStructName) ==
    IF nestedStructs = <<>> THEN NoError
    ELSE LET n == Head(nestedStructs)
             own == IF n.IsComposite /\ n.IsRowFieldExistsInQuery
                    THEN validateCompositeFieldsAgainstEntity(
                             n.StructOut, n.Fields, n.StructIn, parentStructName, "nested")
                    ELSE NoError
             below == IF own.kind = "none" /\ Len(n.NestedStructs) > 0
                      THEN validateCompositeFieldsExistInEntity(n.NestedStructs, parentStructName)
                      ELSE own
         IN IF below.kind # "none" THEN below
            ELSE validateCompositeFieldsExistInEntity(Tail(nestedStructs), parentStructName)

validateExtractedFields(fields, nestedStructs, structOut, reg) ==
    LET root == IF structOut \in DOMAIN reg
                THEN validateCompositeFieldsAgainstEntity(
                         structOut, fields, reg[structOut].Config.StructRootIn,
                         structOut, "root")
                ELSE NoError
    IN IF root.kind # "none" THEN root
       ELSE validateCompositeFieldsExistInEntity(nestedStructs, structOut)

-----------------------------------------------------------------------------
(* 3.4.1 The interface-compatibility validator; buildNestedData holds its   *)
(*       call in a comment (nested.go:217-220), so no run reaches it        *)

\* a collection that does not descend below the direct children
collectMethodsDirect(nestedStructs, methods, isCollectingAvailableMethods) ==
    LET wanted == SelectSeq(nestedStructs,
                            LAMBDA n : ~isCollectingAvailableMethods
                                       \/ n.IsRowFieldExistsInQuery)
        RECURSIVE AddAll(_, _)
        AddAll(ns, acc) ==
            IF ns = <<>> THEN acc
            ELSE AddAll(Tail(ns), IF Head(ns).StructIn \in Range(acc) THEN acc
                                  ELSE Append(acc, Head(ns).StructIn))
    IN AddAll(wanted, methods)

RECURSIVE collectMethodsRecursive(_, _, _)
\* collectMethodsRecursive over the nested structs of a node: the methods
\* Get<StructIn>, each once, in pre-order, after those already in methods
collectMethodsRecursive(nestedStructs, methods, isCollectingAvailableMethods) ==
    IF nestedStructs = <<>> THEN methods
    ELSE LET n == Head(nestedStructs)
             shouldIncludeMethod == ~isCollectingAvailableMethods \/ n.IsRowFieldExistsInQuery
             own == IF shouldIncludeMethod /\ n.StructIn \notin Range(methods)
                    THEN Append(methods, n.StructIn) ELSE methods
             below == collectMethodsRecursive(n.NestedStructs, own,
                                              isCollectingAvailableMethods)
         IN collectMethodsRecursive(Tail(nestedStructs), below, isCollectingAvailableMethods)

collectRequiredMethods(structData) ==
    collectMethodsRecursive(structData.NestedStructs, <<>>, TRUE)

collectCompositeRequiredMethods(structData) ==
    collectMethodsRecursive(structData.NestedStructs, <<>>, FALSE)

findMissingMethods(available, required) ==
    SelectSeq(required, LAMBDA method : method \notin Range(available))

RECURSIVE validateNestedCompositeInterfaces(_, _, _, _)
\* validateNestedCompositeInterfaces, over the nested structs of parentStruct
\* from the i-th on
validateNestedCompositeInterfaces(parentStruct, i, parentMethods, rootStructName) ==
    IF i > Len(parentStruct.NestedStructs) THEN NoError
    ELSE LET nestedStruct == parentStruct.NestedStructs[i]
             missingMethods == findMissingMethods(parentMethods,
                                   collectCompositeRequiredMethods(nestedStruct))
             own == IF nestedStruct.IsComposite
                    THEN IF Len(missingMethods) > 0
                         THEN [kind |-> "interface validation",
                               composite |-> nestedStruct.StructOut,
                               root |-> rootStructName,
                               parent |-> parentStruct.StructOut,
                               missing |-> missingMethods]
                         ELSE validateNestedCompositeInterfaces(nestedStruct, 1,
                                  parentMethods, rootStructName)
                    ELSE NoError
             below == IF own.kind = "none" /\ Len(nestedStruct.NestedStructs) > 0
                      THEN validateNestedCompositeInterfaces(nestedStruct, 1,
                               parentMethods, rootStructName)
                      ELSE own
         IN IF below.kind # "none" THEN below
            ELSE validateNestedCompositeInterfaces(parentStruct, i + 1,
                                                   parentMethods, rootStructName)

validateNestedInterfaceCompatibility(rootStruct, rootStructName) ==
    validateNestedCompositeInterfaces(rootStruct, 1, collectRequiredMethods(rootStruct),
                                      rootStructName)

-----------------------------------------------------------------------------
(* 3.5 The nesting-tree resolver *)

\* the parent argument of buildNestedStructData: nil for the root
NoParent == [IsNil |-> TRUE, SkipStructGeneration |-> FALSE]
ParentOf(node) == [IsNil |-> FALSE, SkipStructGeneration |-> node.SkipStructGeneration]

\* extractFields: the fields whose name is not excluded
extractFields(allFields, fieldsToExclude) ==
    SelectSeq(allFields, LAMBDA f : f \notin Range(fieldsToExclude))

structExistsInSchema(structName) == structName \in DOMAIN Structs

shouldReuseEntityStruct(structOut, structIn, config) ==
    /\ ~(config.IsComposite = "true")
    /\ structExistsInSchema(structIn)
    /\ ~(Len(config.Group) > 0)

\* PluralizeCasePreserving and SingularizeCasePreserving of every name of a
\* run; the functions are pure, a run holds their results in inflected
InflectedNames ==
    [plural   |-> [name \in DOMAIN Spell |-> PluralizeCasePreserving(Spell[name])],
     singular |-> [name \in DOMAIN Spell |-> SingularizeCasePreserving(Spell[name])]]

\* a naming that takes no account of is_slice
getFieldNamePluralOnly(nestedConfig) ==
    IF nestedConfig.FieldOut # "" THEN Spell[nestedConfig.FieldOut]
    ELSE inflected.plural[nestedConfig.StructIn]

getFieldNameFromNestedConfig(nestedConfig) ==
    IF nestedConfig.FieldOut # "" THEN Spell[nestedConfig.FieldOut]
    ELSE IF nestedConfig.IsSlice = "nil" \/ nestedConfig.IsSlice = "true"
         THEN inflected.plural[nestedConfig.StructIn]
         ELSE inflected.singular[nestedConfig.StructIn]

\* getFieldType: the type as the sequence of its parts
getFieldType(structIn, structOut, isSlice, isPointer, isEntityStruct, nestedConfig) ==
    LET useEntityPrefix ==
            isEntityStruct \/ shouldReuseEntityStruct(structOut, structIn, nestedConfig)
        structType == IF useEntityPrefix THEN <<"entity.", structIn>> ELSE <<structOut>>
    IN (IF isSlice THEN <<"[]">> ELSE <<>>) \o (IF isPointer THEN <<"*">> ELSE <<>>)
       \o structType

isRowFieldExistsInQuery(queryName, config) ==
    \E i \in 1..Len(Queries) :
        Queries[i].MethodName = queryName /\ config.StructIn \in Range(Queries[i].Fields)

IsCompositeStructAlreadyGenerated(config, reg) ==
    GetIsComposite(config) /\ reg[config.StructOut].IsStructAlreadyGenerated

\* a resolver that never defers a fragment to the query that declares it
IsCompositeStructNeverDeferred(config) == FALSE

\* reads b.nested, the configs of every source file of the run
IsCompositeStructWillBeGeneratedInAnotherFile(config) ==
    \E i \in 1..Len(nested) : \E j \in 1..Len(nested[i].Configs) :
        nested[i].Configs[j].StructRoot = config.StructOut /\ GetIsComposite(config)

\* a count over the direct children only
countStructOutDirect(nestedStructs, structOut) ==
    Cardinality({i \in 1..Len(nestedStructs) : nestedStructs[i].StructOut = structOut})

RECURSIVE countStructOut(_, _)
\* collectAllNestedStructsByStructOut: how many nested structs below data,
\* at any depth, have the given StructOut
countStructOut(nestedStructs, structOut) ==
    IF nestedStructs = <<>> THEN 0
    ELSE (IF Head(nestedStructs).StructOut = structOut THEN 1 ELSE 0)
         + countStructOut(Head(nestedStructs).NestedStructs, structOut)
         + countStructOut(Tail(nestedStructs), structOut)

RECURSIVE updateDuplicatesTopDown(_, _)
\* levels counted from the root down: level 1 is the scope of the outermost
\* ancestor
updateDuplicatesTopDown(current, ancestors) ==
    LET childAncestors == Append(ancestors, current)
        flagged(child) ==
            [level \in (1..Len(childAncestors)) \cup DOMAIN child.DuplicatedRelativeToParents |->
                IF level <= Len(childAncestors)
                THEN countStructOut(childAncestors[level].NestedStructs,
                                    child.StructOut) > 1
                ELSE child.DuplicatedRelativeToParents[level]]
    IN [current EXCEPT !.NestedStructs =
           [i \in 1..Len(current.NestedStructs) |->
               LET child == current.NestedStructs[i]
               IN updateDuplicatesTopDown(
                      [child EXCEPT !.DuplicatedRelativeToParents = flagged(child)],
                      childAncestors)]]

RECURSIVE updateDuplicatesFromNodePerspective(_, _)
updateDuplicatesFromNodePerspective(current, ancestors) ==
    LET childAncestors == Append(ancestors, current)
        flagged(child) ==
            [level \in (1..Len(childAncestors)) \cup DOMAIN child.DuplicatedRelativeToParents |->
                IF level <= Len(childAncestors)
                THEN countStructOut(
                         childAncestors[Len(childAncestors) - level + 1].NestedStructs,
                         child.StructOut) > 1
                ELSE child.DuplicatedRelativeToParents[level]]
    IN [current EXCEPT !.NestedStructs =
           [i \in 1..Len(current.NestedStructs) |->
               LET child == current.NestedStructs[i]
               IN updateDuplicatesFromNodePerspective(
                      [child EXCEPT !.DuplicatedRelativeToParents = flagged(child)],
                      childAncestors)]]

\* a marking that also empties the excluded fields of the entry
markGeneratedDroppingFields(reg, structOut) ==
    [reg EXCEPT ![structOut].IsStructAlreadyGenerated = TRUE,
                ![structOut].EntityFieldsToExclude = <<>>]

\* compositeStructRegistry[config.StructOut].IsStructAlreadyGenerated = true
markGenerated(reg, structOut) ==
    [reg EXCEPT ![structOut].IsStructAlreadyGenerated = TRUE]

Panic(reg, line) ==
    [st |-> "panic", node |-> <<>>, nodes |-> <<>>, reg |-> reg,
     err |-> [kind |-> "nil pointer dereference", line |-> line]]

RECURSIVE buildNestedStructData(_, _, _, _, _, _)
RECURSIVE buildNestedStructsList(_, _, _, _, _, _)

\* buildNestedStructData at recursion depth `depth`, on the registry reg;
\* gives the node, the registry as the call leaves it, and the error
buildNestedStructData(queryName, config, parent, structFields, reg, depth) ==
    LET fields == extractFields(structFields, getNestedFields(<<config>>, reg))
        registered == config.StructOut \in DOMAIN reg
    IN
    IF depth > StackLimit
    THEN [st |-> "crash", node |-> <<>>, nodes |-> <<>>, reg |-> reg,
          err |-> [kind |-> "stack overflow"]]
    ELSE IF GetIsComposite(config) /\ ~registered
    THEN Panic(reg, 250)
    ELSE
    LET nestedConfigs == IF GetIsComposite(config)
                             THEN reg[config.StructOut].Config.Group ELSE config.Group
        structIn == IF GetIsComposite(config)
                        THEN reg[config.StructOut].Config.StructRootIn ELSE config.StructIn
        isEntity == shouldReuseEntityStruct(config.StructOut, config.StructIn, config)
        fieldName == getFieldNameFromNestedConfig(config)
        fieldType == getFieldType(config.StructIn, config.StructOut, GetIsSlice(config),
                                      GetIsPointer(config), isEntity, config)
        isRootConfig == parent.IsNil
        isAlreadyGenerated == IsCompositeStructAlreadyGenerated(config, reg)
        willBeGeneratedInAnotherFile == IsCompositeStructWillBeGeneratedInAnotherFile(config)
        skipStructGeneration ==
            ~isRootConfig /\ (isAlreadyGenerated \/ willBeGeneratedInAnotherFile
                                  \/ parent.SkipStructGeneration)
        mark == isRootConfig \/ (~willBeGeneratedInAnotherFile /\ registered
                                     /\ ~parent.SkipStructGeneration)
    IN
    IF mark /\ ~registered
    THEN Panic(reg, 280)
    ELSE
    LET reg1 == IF mark THEN markGenerated(reg, config.StructOut) ELSE reg
        resultData == [StructIn |-> structIn,
                       StructOut |-> config.StructOut,
                       FieldGroupBy |-> config.FieldGroupBy,
                       IsSlice |-> GetIsSlice(config),
                       IsPointer |-> GetIsPointer(config),
                       FieldName |-> fieldName,
                       FieldType |-> fieldType,
                       RowFieldName |-> config.StructIn,
                       Fields |-> fields,
                       IsEntityStruct |-> isEntity,
                       IsComposite |-> GetIsComposite(config),
                       IsRowFieldExistsInQuery |-> isRowFieldExistsInQuery(queryName, config),
                       SkipStructGeneration |-> skipStructGeneration,
                       IsRoot |-> isRootConfig,
                       DuplicatedRelativeToParents |-> <<>>,
                       NestedStructs |-> <<>>]
        built == buildNestedStructsList(queryName, ParentOf(resultData), nestedConfigs,
                                            reg1, depth, <<>>)
    IN
    IF built.st # "ok" THEN built
    ELSE
    LET whole == [resultData EXCEPT !.NestedStructs = built.nodes]
        invalid == IF isRootConfig
                       THEN validateExtractedFields(fields, built.nodes, config.StructOut, built.reg)
                       ELSE NoError
    IN IF invalid.kind # "none"
       THEN [st |-> "error", node |-> <<>>, nodes |-> <<>>, reg |-> built.reg, err |-> invalid]
       ELSE [st |-> "ok", node |-> updateDuplicatesFromNodePerspective(whole, <<>>),
             nodes |-> <<>>, reg |-> built.reg, err |-> NoError]

RECURSIVE buildNestedStructsListReversed(_, _, _, _, _, _)
\* the nodes of a group, last first
buildNestedStructsListReversed(queryName, parent, group, reg, depth, done) ==
    IF group = <<>>
    THEN [st |-> "ok", node |-> <<>>, nodes |-> done, reg |-> reg, err |-> NoError]
    ELSE LET n == Head(group)
             structFields == IF n.StructIn \in DOMAIN Structs
                             THEN Structs[n.StructIn] ELSE <<>>
             r == buildNestedStructData(queryName, n, parent, structFields, reg, depth + 1)
         IN IF r.st # "ok" THEN r
            ELSE buildNestedStructsListReversed(queryName, parent, Tail(group), r.reg, depth,
                                                <<r.node>> \o done)

\* buildNestedStructsList: the nodes of a group, in order, after `done`
buildNestedStructsList(queryName, parent, group, reg, depth, done) ==
    IF group = <<>>
    THEN [st |-> "ok", node |-> <<>>, nodes |-> done, reg |-> reg, err |-> NoError]
    ELSE LET n == Head(group)
             structFields == IF n.StructIn \in DOMAIN Structs
                             THEN Structs[n.StructIn] ELSE <<>>
             r == buildNestedStructData(queryName, n, parent, structFields, reg, depth + 1)
         IN IF r.st # "ok" THEN r
            ELSE buildNestedStructsList(queryName, parent, Tail(group), r.reg, depth,
                                        Append(done, r.node))

\* buildNestedData: the data item of one query, with its resolved tree; the
\* call of validateNestedInterfaceCompatibility is commented out in the
\* source (lines 217-220) and so takes no part
buildNestedData(query, config, reg) ==
    LET queryName == IF query.MethodName = "" THEN query.SourceName ELSE query.MethodName
        rootStruct == IF config.StructRoot = "" THEN queryName \o "Group"
                      ELSE config.StructRoot
        rootField == IF config.FieldGroupBy = "" THEN "ID" ELSE config.FieldGroupBy
        r == buildNestedStructData(
                 query.MethodName,
                 [Node(rootStruct, rootStruct, config.IsComposite, config.Group)
                     EXCEPT !.FieldGroupBy = rootField],
                 NoParent, query.Fields, reg, 1)
    IN [st |-> r.st, reg |-> r.reg, err |-> r.err,
        item |-> [FunctionName |-> "Group" \o queryName,
                  Query |-> query.MethodName,
                  RootStructName |-> config.StructRoot,
                  HasRootStructData |-> TRUE,
                  RootStructData |-> r.node,
                  CastToQueryName |-> ""]]

\* a wrapper that casts to the query of its own declaration
buildNestedWrapperDataCastToSelf(query, config, firstQueryName) ==
    [FunctionName |-> "Group" \o query.MethodName,
     Query |-> query.MethodName,
     RootStructName |-> config.StructRoot,
     HasRootStructData |-> FALSE,
     RootStructData |-> <<>>,
     CastToQueryName |-> query.MethodName]

buildNestedWrapperData(query, config, firstQueryName) ==
    [FunctionName |-> "Group" \o query.MethodName,
     Query |-> query.MethodName,
     RootStructName |-> config.StructRoot,
     HasRootStructData |-> FALSE,
     RootStructData |-> <<>>,
     CastToQueryName |-> firstQueryName]

-----------------------------------------------------------------------------
(* 3.6 The run: Generate up to the return of populateNestedDataItems *)

GenInit ==
    /\ inflected = InflectedNames
    /\ phase = "start"
    /\ options \in [Composites : CompositeLists, Queries : QueryConfigLists]
    /\ nested = <<>>
    /\ compositeStructRegistry = <<>>
    /\ fileIndex = 0
    /\ configIndex = 0
    /\ nestedDataItems = <<>>
    /\ generatedStructRoots = <<>>
    /\ failure = NoError
    /\ output = <<>>
    /\ response = "nil"
    \* the other parts of the program are not running
    /\ word = <<>> /\ once = <<>> /\ twice = <<>> /\ npc = "idle"
    /\ shape = [Book |-> TRUE, Review |-> TRUE]
    /\ rows = <<>> /\ heap = <<>> /\ rootMap = <<>> /\ appendLog = <<>>
    /\ result = <<>> /\ pc = "idle"

PopulateDefaults ==
    /\ phase = "start"
    /\ options' = populateNestedConfigWithDefaultValues(options)
    /\ phase' = "defaults"
    /\ UNCHANGED <<nested, compositeStructRegistry, fileIndex, configIndex,
                   nestedDataItems, generatedStructRoots, failure,
                   namingVars, groupVars, emitVars>>

GetNestedSources ==
    /\ phase = "defaults"
    /\ nested' = getNestedSourceWithConfigs(options)
    /\ phase' = "sources"
    /\ UNCHANGED <<options, compositeStructRegistry, fileIndex, configIndex,
                   nestedDataItems, generatedStructRoots, failure,
                   namingVars, groupVars, emitVars>>

\* populateNestedDataItems, first part: the registry
BuildRegistry ==
    /\ phase = "sources"
    /\ \E order \in SetToSeqs(DOMAIN Structs) :
          LET r == buildCompositeStructRegistry(options, compositeStructRegistry, order)
          IN /\ compositeStructRegistry' = r.reg
             /\ failure' = r.err
             /\ phase' = CASE r.st = "ok"    -> IF Len(nested) = 0 THEN "populated" ELSE "items"
                           [] r.st = "error" -> "failed"
                           [] OTHER          -> "crashed"
    /\ fileIndex' = 1
    /\ UNCHANGED <<options, nested, configIndex, nestedDataItems, generatedStructRoots,
                   namingVars, groupVars, emitVars>>

\* what the end of the loop over a file's configs does with the items built
EndOfConfig(items, roots) ==
    IF configIndex + 1 < Len(nested[fileIndex].Configs)
    THEN /\ configIndex' = configIndex + 1
         /\ nestedDataItems' = items
         /\ generatedStructRoots' = roots
         /\ UNCHANGED <<nested, fileIndex, phase>>
    ELSE /\ nested' = [nested EXCEPT ![fileIndex].NestedDataItems = items]
         /\ fileIndex' = fileIndex + 1
         /\ configIndex' = 0
         /\ nestedDataItems' = <<>>
         /\ generatedStructRoots' = <<>>
         /\ phase' = IF fileIndex = Len(nested) THEN "populated" ELSE "items"

\* populateNestedDataItems, second part: one turn of the loop of
\* buildNestedDataItems, for the next config of the file in work
BuildNestedDataItem ==
    /\ phase = "items"
    /\ LET config == nested[fileIndex].Configs[configIndex + 1]
           q == FindQuery(config.Query)
           structRoot == IF config.StructRoot = "" THEN config.Query \o "Group"
                         ELSE config.StructRoot
       IN IF q = 0
          THEN /\ EndOfConfig(nestedDataItems, generatedStructRoots)
               /\ UNCHANGED <<compositeStructRegistry, failure>>
          ELSE IF /\ structRoot \in DOMAIN generatedStructRoots
                  /\ generatedStructRoots[structRoot] # config.Query
          THEN /\ EndOfConfig(Append(nestedDataItems,
                                     buildNestedWrapperData(Queries[q], config,
                                                            generatedStructRoots[structRoot])),
                              generatedStructRoots)
               /\ UNCHANGED <<compositeStructRegistry, failure>>
          ELSE LET r == buildNestedData(Queries[q], config, compositeStructRegistry)
               IN /\ compositeStructRegistry' = r.reg
                  /\ IF r.st = "ok"
                     THEN /\ EndOfConfig(Append(nestedDataItems, r.item),
                                         (structRoot :> config.Query) @@ generatedStructRoots)
                          /\ UNCHANGED failure
                     ELSE /\ failure' = r.err
                          /\ phase' = IF r.st = "error" THEN "failed" ELSE "crashed"
                          /\ UNCHANGED <<nested, fileIndex, configIndex,
                                         nestedDataItems, generatedStructRoots>>
    /\ UNCHANGED <<options, namingVars, groupVars, emitVars>>

\* Generate, before the nesting steps: opts.Parse, opts.ValidateOpts or
\* buildQueries returns an error
RejectRequest ==
    /\ phase = "start"
    /\ phase' = "failed"
    /\ failure' = [kind |-> "request"]
    /\ UNCHANGED <<options, nested, compositeStructRegistry, fileIndex, configIndex,
                   nestedDataItems, generatedStructRoots, namingVars, groupVars, emitVars>>

\* validate: a name conflict among enums, structs and query constants, which
\* are outside the nesting options, ends the run with an error
Validate ==
    /\ phase = "populated"
    /\ \E conflict \in BOOLEAN :
          IF conflict
          THEN phase' = "failed" /\ failure' = [kind |-> "name conflict"]
          ELSE phase' = "generate" /\ UNCHANGED failure
    /\ UNCHANGED <<options, nested, compositeStructRegistry, fileIndex, configIndex,
                   nestedDataItems, generatedStructRoots, namingVars, groupVars, emitVars>>

File(templateName, name) == [template |-> templateName, name |-> name]

\* the files generate executes in a fixed order before the query files ...
FirstFiles == <<File("dbFile", "db.go"), File("modelsFile", "models.go")>>

\* ... the query files, one per source of the queries, executed in the order
\* of a map iteration ...
QueryFiles == {File("queryFile", Queries[i].SourceName) : i \in 1..Len(Queries)}

\* ... and the nested files, one per source file with nesting, followed by
\* the utilities file when there is any
NestedFiles ==
    IF Len(nested) > 0
    THEN [i \in 1..Len(nested) |-> File("nestedCoreFile", nested[i].SourceFileName)]
         \o <<File("nestedUtilsFile", "nested.utils.go")>>
    ELSE <<>>

\* the files that generate may execute next
NextFiles ==
    IF Len(output) < Len(FirstFiles) THEN {FirstFiles[Len(output) + 1]}
    ELSE IF QueryFiles \ Range(output) # {} THEN QueryFiles \ Range(output)
    ELSE LET done == Len(output) - Len(FirstFiles) - Cardinality(QueryFiles)
         IN IF done < Len(NestedFiles) THEN {NestedFiles[done + 1]} ELSE {}

\* execute(name, pkg, template): the file joins output, or generate returns
\* the error of the template
execute(file, ok) ==
    IF ok
    THEN /\ output' = Append(output, file)
         /\ UNCHANGED <<phase, failure, response>>
    ELSE /\ phase' = "failed"
         /\ failure' = [kind |-> "template", file |-> file]
         /\ UNCHANGED <<output, response>>

\* generate: one call of execute
ExecuteFile ==
    /\ phase = "generate"
    /\ \E file \in NextFiles : \E ok \in BOOLEAN : execute(file, ok)
    /\ UNCHANGED <<options, nested, compositeStructRegistry, fileIndex, configIndex,
                   nestedDataItems, generatedStructRoots, namingVars, groupVars>>

\* generate: every file is executed; the response holds them all
Respond ==
    /\ phase = "generate"
    /\ NextFiles = {}
    /\ response' = Range(output)
    /\ phase' = "done"
    /\ UNCHANGED <<options, nested, compositeStructRegistry, fileIndex, configIndex,
                   nestedDataItems, generatedStructRoots, failure, output,
                   namingVars, groupVars>>

GenNext ==
    \/ RejectRequest \/ PopulateDefaults \/ GetNestedSources \/ BuildRegistry
    \/ BuildNestedDataItem \/ Validate \/ ExecuteFile \/ Respond

-----------------------------------------------------------------------------
(* Properties of the generation run (Spec) *)

RECURSIVE ItemsOfFiles(_)
\* the data items stored on the first i source files
ItemsOfFiles(i) ==
    IF i = 0 THEN <<>> ELSE ItemsOfFiles(i - 1) \o nested[i].NestedDataItems

\* every data item built so far in the run
AllItems == ItemsOfFiles(Len(nested)) \o nestedDataItems

RECURSIVE NodesOf(_)
\* the nodes of a list of trees, in pre-order
NodesOf(trees) ==
    IF trees = <<>> THEN <<>>
    ELSE <<Head(trees)>> \o NodesOf(Head(trees).NestedStructs) \o NodesOf(Tail(trees))

RECURSIVE TreesOf(_)
TreesOf(items) ==
    IF items = <<>> THEN <<>>
    ELSE (IF Head(items).HasRootStructData THEN <<Head(items).RootStructData>> ELSE <<>>)
         \o TreesOf(Tail(items))

\* every node of every resolved tree of the run
AllNodes == NodesOf(TreesOf(AllItems))

AfterRegistry == phase \in {"items", "populated", "failed", "crashed"}

\* the queries that reference the fragment output type X, as their root or
\* as a composite node of their tree
ReferencesTo(X) ==
    {k \in 1..Len(AllItems) :
        \/ AllItems[k].RootStructName = X
        \/ /\ AllItems[k].HasRootStructData
           /\ \E n \in Range(NodesOf(<<AllItems[k].RootStructData>>)) :
                 n.StructOut = X /\ n.IsComposite}

\* the nodes that define X: skipTypeGeneration = false
DefinitionsOf(X) ==
    {k \in 1..Len(AllNodes) : AllNodes[k].StructOut = X /\ ~AllNodes[k].SkipStructGeneration}

\* C1 (generate-once): at the end of a run, every fragment output type that
\* two or more queries reference is defined by exactly one node of the
\* resolved trees; every other node for it only references it.
GenerateOnce ==
    phase = "populated" =>
        \A X \in DOMAIN compositeStructRegistry :
            Cardinality(ReferencesTo(X)) >= 2 => Cardinality(DefinitionsOf(X)) = 1

\* C2 (no duplicate fields): no node of a resolved tree has an own field
\* named as the row field (struct_in) of one of its children.
NoDuplicateFields ==
    \A k \in 1..Len(AllNodes) :
        \A c \in 1..Len(AllNodes[k].NestedStructs) :
            AllNodes[k].NestedStructs[c].RowFieldName \notin Range(AllNodes[k].Fields)

\* the fragments a fragment refers to through children marked composite
CompositeChildrenOf(name) ==
    UNION {{f.Group[c].StructOut : c \in {d \in 1..Len(f.Group) : f.Group[d].IsComposite = "true"}}
             : f \in {g \in Range(options.Composites) : g.Name = name}}

RECURSIVE ReachableIn(_, _)
\* the fragments reached from the set S in at most n further steps
ReachableIn(S, n) ==
    IF n = 0 THEN S
    ELSE ReachableIn(S \cup UNION {CompositeChildrenOf(x) : x \in S}, n - 1)

FragmentNames == {f.Name : f \in Range(options.Composites)}

\* a declared fragment is reachable from itself
HasCycle ==
    \E a \in FragmentNames :
        a \in ReachableIn(CompositeChildrenOf(a) \cap FragmentNames, Len(options.Composites))

\* C3 (cycle detection): when the reference graph of the fragments has a
\* cycle, building the registry ends with an error value; it does not
\* recurse until the stack is exhausted.
CycleDetection ==
    (AfterRegistry /\ HasCycle) => (phase = "failed" /\ failure.kind # "none")

\* the entities a tree takes from the row of its query
AvailableIn(tree) ==
    {n.StructIn : n \in {m \in Range(NodesOf(tree.NestedStructs)) : m.IsRowFieldExistsInQuery}}

\* a composite-reference node of the tree requires, below it, an entity
\* that the row of the query does not supply
Incompatible(tree) ==
    \E n \in Range(NodesOf(tree.NestedStructs)) :
        /\ n.IsComposite
        /\ \E d \in Range(NodesOf(n.NestedStructs)) : d.StructIn \notin AvailableIn(tree)

\* C4 (compatibility detection): no tree is accepted in which a composite
\* reference requires a nested entity that the query's row does not supply;
\* generation of such a query fails.
CompatibilityDetection ==
    \A t \in Range(TreesOf(AllItems)) : ~Incompatible(t)

\* the tree of a root config as the resolver builds it before the check of
\* the root: the same call under a parent, where validateExtractedFields
\* is not reached
UncheckedTree(q, config) ==
    buildNestedStructData(
        Queries[q].MethodName,
        [Node(config.StructRoot, config.StructRoot, config.IsComposite, config.Group)
            EXCEPT !.FieldGroupBy = "ID"],
        [IsNil |-> FALSE, SkipStructGeneration |-> FALSE],
        Queries[q].Fields, compositeStructRegistry, 1)

MissingIn(fields, entity) == {f \in Range(fields) : f \notin Range(Structs[entity])}

\* the composites of a tree that carry a field their entity does not have:
\* the root when it is a registered fragment, and the composite references
\* whose row field exists in the query
DriftsOf(tree) ==
    LET rootEntity == compositeStructRegistry[tree.StructOut].Config.StructRootIn
        rootDrift ==
            IF /\ tree.StructOut \in DOMAIN compositeStructRegistry
               /\ rootEntity \in DOMAIN Structs
               /\ MissingIn(tree.Fields, rootEntity) # {}
            THEN {[composite |-> tree.StructOut, entity |-> rootEntity,
                   missing |-> MissingIn(tree.Fields, rootEntity)]}
            ELSE {}
        nestedDrift ==
            {[composite |-> n.StructOut, entity |-> n.StructIn,
              missing |-> MissingIn(n.Fields, n.StructIn)] :
                n \in {m \in Range(NodesOf(tree.NestedStructs)) :
                          /\ m.IsComposite /\ m.IsRowFieldExistsInQuery
                          /\ m.StructIn \in DOMAIN Structs
                          /\ MissingIn(m.Fields, m.StructIn) # {}}}
    IN rootDrift \cup nestedDrift

\* the config that the next turn of the loop resolves into a tree of its own
NextRootConfig ==
    LET config == nested[fileIndex].Configs[configIndex + 1]
    IN /\ FindQuery(config.Query) # 0
       /\ config.StructRoot \in DOMAIN compositeStructRegistry
       /\ ~(/\ config.StructRoot \in DOMAIN generatedStructRoots
            /\ generatedStructRoots[config.StructRoot] # config.Query)

\* C5 (schema-drift detection): when the tree of a query has a checked
\* composite (the root if it is a registered fragment, a composite reference
\* if its row field exists) with a field that its entity lacks, the
\* generation of the query fails with an error naming every missing field
\* of one such composite, the composite and the entity; when there is none,
\* the query does not fail.
SchemaDriftDetection ==
    [][ (phase = "items" /\ NextRootConfig) =>
          LET config == nested[fileIndex].Configs[configIndex + 1]
              t == UncheckedTree(FindQuery(config.Query), config)
          IN t.st = "ok" =>
                /\ DriftsOf(t.node) # {} =>
                      /\ phase' = "failed"
                      /\ failure'.kind = "schema drift"
                      /\ [composite |-> failure'.composite, entity |-> failure'.entity,
                          missing |-> Range(failure'.missing)] \in DriftsOf(t.node)
                /\ DriftsOf(t.node) = {} => (phase' # "failed" /\ failure' = NoError)
      ]_vars

\* a query failed on a composite that lacks two fields of its entity
SchemaDriftWitness ==
    /\ phase = "failed"
    /\ failure.kind = "schema drift"
    /\ Len(failure.missing) >= 2

\* the files of a complete response
AllFiles == Range(FirstFiles) \cup QueryFiles \cup Range(NestedFiles)

\* C11 (atomic failure): every failing step of Generate ends the run by
\* returning its error with no response; a response, when there is one,
\* holds every file.
AtomicFailure ==
    /\ phase # "crashed"
    /\ phase = "failed" => (failure.kind # "none" /\ response = "nil")
    /\ response # "nil" => (phase = "done" /\ response = AllFiles)

RECURSIVE GroupNodes(_)
\* the nodes of a group at every nesting depth
GroupNodes(group) ==
    IF group = <<>> THEN <<>>
    ELSE <<Head(group)>> \o GroupNodes(Head(group).Group) \o GroupNodes(Tail(group))

\* every group node of every query declaration and of every fragment
AllGroupNodes ==
    UNION {Range(GroupNodes(options.Queries[i].Group)) : i \in 1..Len(options.Queries)}
    \cup UNION {Range(GroupNodes(options.Composites[i].Group)) : i \in 1..Len(options.Composites)}

DefaultsPopulated == phase \notin {"start", "idle"} /\ failure.kind # "request"

\* C12 (node defaults): once populateNestedConfigWithDefaultValues has run,
\* every group node at every depth has struct_out and group_by_field
\* non-empty and is_slice, is_pointer and is_composite set.
NodeDefaults ==
    DefaultsPopulated =>
        \A n \in AllGroupNodes :
            /\ n.StructOut # ""
            /\ n.FieldGroupBy # ""
            /\ n.IsSlice # "nil" /\ n.IsPointer # "nil" /\ n.IsComposite # "nil"

\* a declaration names a query that the request does not have
UnknownQueryDeclared ==
    \E i \in 1..Len(options.Queries) : FindQuery(options.Queries[i].Query) = 0

\* C13 (unknown query name): a run whose options declare nesting for a query
\* that the request does not have gives no response; it fails.
UnknownQueryFails ==
    UnknownQueryDeclared => (response = "nil" /\ phase \notin {"generate", "done"})

rootOf(config) == IF config.StructRoot = "" THEN config.Query \o "Group" ELSE config.StructRoot

\* two declarations for different queries of the request claim one
\* struct_root, neither as a composite reference
CollidingRoots ==
    \E i, j \in 1..Len(options.Queries) :
        LET a == options.Queries[i]
            b == options.Queries[j]
        IN /\ i < j /\ a.Query # b.Query
           /\ FindQuery(a.Query) # 0 /\ FindQuery(b.Query) # 0
           /\ rootOf(a) = rootOf(b)
           /\ a.IsComposite = "false" /\ b.IsComposite = "false"

\* C14 (naming collision): a run with two colliding declarations fails; it
\* gives no response.
NamingCollision ==
    CollidingRoots => (response = "nil" /\ phase \notin {"generate", "done"})

\* the declarations of the query of a data item
DeclarationsOf(item) ==
    {c \in Range(options.Queries) : c.Query = item.Query}

\* C15 (composite default): a declaration whose is_composite is unspecified
\* resolves to a root that is not a composite reference, and no resolved
\* node is at once a composite reference (registry lookup) and a reused
\* entity (entity-reuse test).
CompositeDefault ==
    /\ \A k \in 1..Len(AllItems) :
           AllItems[k].HasRootStructData =>
               \A c \in DeclarationsOf(AllItems[k]) :
                   c.IsComposite = "nil" => ~AllItems[k].RootStructData.IsComposite
    /\ \A k \in 1..Len(AllNodes) : ~(AllNodes[k].IsComposite /\ AllNodes[k].IsEntityStruct)

RECURSIVE SkipWalk(_, _, _, _)
\* the skipping rule over a list of non-root nodes, in the order the resolver
\* visits them (a node, its descendants, its later siblings): generated is
\* the set of fragments marked generated when the first node is reached,
\* elsewhere the struct_roots that other queries declare; a node that does
\* not skip and whose output type is a registered fragment marks it
SkipWalk(nodes, parentSkips, generated, elsewhere) ==
    IF nodes = <<>> THEN [holds |-> TRUE, generated |-> generated]
    ELSE LET n == Head(nodes)
             expected == \/ n.IsComposite /\ n.StructOut \in generated
                         \/ n.IsComposite /\ n.StructOut \in elsewhere
                         \/ parentSkips
             marked == IF ~expected /\ n.StructOut \in DOMAIN compositeStructRegistry
                       THEN generated \cup {n.StructOut} ELSE generated
             below == SkipWalk(n.NestedStructs, expected, marked, elsewhere)
             rest == SkipWalk(Tail(nodes), parentSkips, below.generated, elsewhere)
         IN [holds |-> (n.SkipStructGeneration = expected) /\ below.holds /\ rest.holds,
             generated |-> rest.generated]

\* the fragments marked generated in the registry
MarkedGenerated ==
    {X \in DOMAIN compositeStructRegistry : compositeStructRegistry[X].IsStructAlreadyGenerated}

\* the struct_roots declared by the queries of the request other than query
RootsDeclaredElsewhere(query) ==
    {rootOf(c) : c \in {d \in Range(options.Queries) :
                           FindQuery(d.Query) # 0 /\ d.Query # query}}

\* C16 (generation skipping rule): in the tree that a turn of the loop
\* resolves, the root does not skip, and a non-root node skips if and only if
\* (a) it is a composite reference whose fragment is marked generated when
\* the node is resolved, or (b) it is a composite reference and a different
\* query declares its output type as struct_root, or (c) its parent skips.
SkippingRule ==
    [][ (phase = "items" /\ NextRootConfig /\ Len(AllItems') > Len(AllItems)) =>
          LET item == AllItems'[Len(AllItems')]
              tree == item.RootStructData
          IN /\ item.HasRootStructData
             /\ ~tree.SkipStructGeneration
             /\ SkipWalk(tree.NestedStructs, FALSE,
                         MarkedGenerated \cup {tree.StructOut},
                         RootsDeclaredElsewhere(item.Query)).holds
      ]_vars

\* the resolved trees hold a composite reference that skips under a parent
\* that does not, one that does not skip, and a node that skips with its parent
SkippingWitness ==
    /\ \E k \in 1..Len(AllNodes) :
          /\ ~AllNodes[k].SkipStructGeneration
          /\ \E c \in 1..Len(AllNodes[k].NestedStructs) :
                 /\ AllNodes[k].NestedStructs[c].IsComposite
                 /\ AllNodes[k].NestedStructs[c].SkipStructGeneration
          /\ \E c \in 1..Len(AllNodes[k].NestedStructs) :
                 /\ AllNodes[k].NestedStructs[c].IsComposite
                 /\ ~AllNodes[k].NestedStructs[c].SkipStructGeneration
    /\ \E k \in 1..Len(AllNodes) :
          /\ AllNodes[k].SkipStructGeneration
          /\ Len(AllNodes[k].NestedStructs) > 0

\* C17 (field typing): a resolved node reuses the entity type exactly when
\* it has no children, is not a composite reference and the catalog holds an
\* entity named by its input type; its field type is the entity's type then
\* and its output type otherwise, as T, *T, []T or []*T by is_slice and
\* is_pointer.
FieldTyping ==
    \A k \in 1..Len(AllNodes) :
        LET n == AllNodes[k]
        IN /\ n.IsEntityStruct <=> /\ Len(n.NestedStructs) = 0
                                   /\ ~n.IsComposite
                                   /\ n.StructIn \in DOMAIN Structs
           /\ n.FieldType = (IF n.IsSlice THEN <<"[]">> ELSE <<>>)
                             \o (IF n.IsPointer THEN <<"*">> ELSE <<>>)
                             \o (IF n.IsEntityStruct THEN <<"entity.", n.StructIn>>
                                  ELSE <<n.StructOut>>)

\* the group that the children of a resolved node come from: the group of
\* the fragment for a composite reference, the declared group otherwise
GroupOf(node, declared) ==
    IF node.IsComposite THEN compositeStructRegistry[node.StructOut].Config.Group
    ELSE declared

\* the field name the naming rule gives a group node; InflectedNames holds
\* PluralizeCasePreserving and SingularizeCasePreserving of every name
ExpectedFieldName(config) ==
    IF config.FieldOut # "" THEN Spell[config.FieldOut]
    ELSE IF config.IsSlice = "false" THEN InflectedNames.singular[config.StructIn]
    ELSE InflectedNames.plural[config.StructIn]

RECURSIVE NamingWalk(_, _)
\* the resolved nodes are those of the group nodes, one for one, each named
\* by the rule
NamingWalk(nodes, configs) ==
    /\ Len(nodes) = Len(configs)
    /\ \A i \in 1..Len(nodes) :
          /\ nodes[i].FieldName = ExpectedFieldName(configs[i])
          /\ NamingWalk(nodes[i].NestedStructs, GroupOf(nodes[i], configs[i].Group))

\* C18 (field naming): the field name of every group node of every resolved
\* tree is its field_out when that is not empty; otherwise the plural of its
\* struct_in when is_slice is true or unspecified and the singular of its
\* struct_in when is_slice is false.
FieldNaming ==
    \A k \in 1..Len(AllItems) :
        AllItems[k].HasRootStructData =>
            \A c \in DeclarationsOf(AllItems[k]) :
                NamingWalk(AllItems[k].RootStructData.NestedStructs,
                           GroupOf(AllItems[k].RootStructData, c.Group))

\* one resolved node has children named by field_out, by the plural and by
\* the singular
FieldNamingWitness ==
    \E k \in 1..Len(AllNodes) :
        LET children == AllNodes[k].NestedStructs
        IN /\ \E c \in 1..Len(children) :
                 children[c].FieldName = <<"V","o","l","u","m","e","s">>
                 /\ children[c].RowFieldName = "Book"
           /\ \E c \in 1..Len(children) :
                 children[c].FieldName = <<"R","e","v","i","e","w","s">>
           /\ \E c \in 1..Len(children) :
                 children[c].FieldName = <<"A","u","t","h","o","r">>

\* some node other than one with output type X, among all the descendants of
\* ancestor, has the output type X too
DuplicatedBelow(ancestor, X) ==
    LET descendants == NodesOf(ancestor.NestedStructs)
    IN Cardinality({j \in 1..Len(descendants) : descendants[j].StructOut = X}) >= 2

RECURSIVE DuplicateWalk(_, _)
\* the flags of every node below node, whose ancestors above it are given
\* nearest first
DuplicateWalk(node, ancestors) ==
    LET above == <<node>> \o ancestors
    IN \A i \in 1..Len(node.NestedStructs) :
          LET n == node.NestedStructs[i]
          IN /\ DOMAIN n.DuplicatedRelativeToParents = 1..Len(above)
             /\ \A L \in 1..Len(above) :
                   n.DuplicatedRelativeToParents[L] <=> DuplicatedBelow(above[L], n.StructOut)
             /\ DuplicateWalk(n, above)

\* C19 (duplicate-level detection): in the finished tree of a query, a
\* non-root node at depth d carries a flag for every level 1..d, and the flag
\* of level L is true if and only if another node among all descendants of
\* its L-th ancestor has the same output type.
DuplicateLevels ==
    \A k \in 1..Len(AllItems) :
        AllItems[k].HasRootStructData => DuplicateWalk(AllItems[k].RootStructData, <<>>)

\* a node at depth two whose output type occurs once below its parent and
\* again elsewhere below the root
DuplicateLevelsWitness ==
    \E k \in 1..Len(AllNodes) :
        /\ DOMAIN AllNodes[k].DuplicatedRelativeToParents = 1..2
        /\ ~AllNodes[k].DuplicatedRelativeToParents[1]
        /\ AllNodes[k].DuplicatedRelativeToParents[2]

RECURSIVE MonotoneWalk(_, _)
\* below node, which is at depth `depth`, every flag map has exactly the
\* levels up to the depth of its node and never falls as the level grows
MonotoneWalk(node, depth) ==
    \A i \in 1..Len(node.NestedStructs) :
        LET n == node.NestedStructs[i]
            flags == n.DuplicatedRelativeToParents
        IN /\ DOMAIN flags = 1..(depth + 1)
           /\ \A L \in 1..(depth + 1) : \A L2 \in (L + 1)..(depth + 1) :
                  flags[L] => flags[L2]
           /\ MonotoneWalk(n, depth + 1)

\* C29 -- Duplicate flags are monotone in the level: in every finished tree
\* a non-root node at depth d has a flag for exactly the levels 1..d, and a
\* flag that is true at a level is true at every higher level up to d.
MonotoneDuplicates ==
    \A k \in 1..Len(AllItems) :
        AllItems[k].HasRootStructData => MonotoneWalk(AllItems[k].RootStructData, 0)

\* a node at depth two that is a duplicate below its parent already, and
\* below the root too
MonotoneDuplicatesWitness ==
    \E k \in 1..Len(AllNodes) :
        /\ DOMAIN AllNodes[k].DuplicatedRelativeToParents = 1..2
        /\ AllNodes[k].DuplicatedRelativeToParents[1]
        /\ AllNodes[k].DuplicatedRelativeToParents[2]

\* C20 (root validation trigger): the validator runs over the whole tree of
\* every query with nesting configured, a query that shares its struct_root
\* with an earlier query of its file included: when the items of a run are
\* built, every declared query of the request has a resolved tree, the one
\* the root call built and validated.
RootValidation ==
    phase = "populated" =>
        \A c \in Range(options.Queries) :
            FindQuery(c.Query) # 0 =>
                \E k \in 1..Len(AllItems) :
                    /\ AllItems[k].Query = Queries[FindQuery(c.Query)].MethodName
                    /\ AllItems[k].HasRootStructData

\* the registry is built and the run has not failed since
RegistryBuilt == phase \in {"items", "populated", "generate", "done"}

\* the children of a fragment that are composite references
CompositeChildren(f) ==
    {c \in Range(f.Group) : c.IsComposite = "true"}

\* every composite child of every fragment refers to a declared fragment
AllReferencesDeclared ==
    \A f \in Range(options.Composites) :
        \A c \in CompositeChildren(f) : c.StructOut \in DOMAIN compositeStructRegistry

\* C21 (transitive excluded fields): once the registry is built, on a
\* configuration whose references are all declared, the excluded fields of
\* every fragment are the struct_in of its direct children together with the
\* excluded fields of every fragment that a composite child of it refers to.
TransitiveExcludedFields ==
    (RegistryBuilt /\ AllReferencesDeclared) =>
        \A f \in Range(options.Composites) :
            Range(compositeStructRegistry[f.Name].EntityFieldsToExclude)
              = {c.StructIn : c \in Range(f.Group)}
                \cup UNION {Range(compositeStructRegistry[c.StructOut].EntityFieldsToExclude) :
                               c \in CompositeChildren(f)}

\* a registry entry without its generated flag
Unflagged(entry) == [entry EXCEPT !.IsStructAlreadyGenerated = FALSE]

\* C22 (registry frame): once buildCompositeStructRegistry has returned, no
\* step of the run adds or removes a registry entry or changes its Config,
\* DirectNestedFields, NestedFieldToCompositeNameMap or
\* EntityFieldsToExclude; IsStructAlreadyGenerated only goes from false to
\* true.
RegistryFrame ==
    [][ RegistryBuilt =>
          /\ DOMAIN compositeStructRegistry' = DOMAIN compositeStructRegistry
          /\ \A X \in DOMAIN compositeStructRegistry :
                /\ Unflagged(compositeStructRegistry'[X]) = Unflagged(compositeStructRegistry[X])
                /\ compositeStructRegistry[X].IsStructAlreadyGenerated
                      => compositeStructRegistry'[X].IsStructAlreadyGenerated
      ]_vars

\* two trees are resolved; a fragment with excluded fields is marked
\* generated and another is not
RegistryFrameWitness ==
    /\ phase = "populated"
    /\ Len(TreesOf(AllItems)) >= 2
    /\ \E X, Y \in DOMAIN compositeStructRegistry :
          /\ compositeStructRegistry[X].IsStructAlreadyGenerated
          /\ compositeStructRegistry[X].EntityFieldsToExclude # <<>>
          /\ ~compositeStructRegistry[Y].IsStructAlreadyGenerated

\* the composite references of a tree that require, below them, an entity
\* that the row of the query does not supply, in pre-order
IncompatibleNodes(tree) ==
    SelectSeq(NodesOf(tree.NestedStructs),
              LAMBDA n : /\ n.IsComposite
                         /\ \E d \in Range(NodesOf(n.NestedStructs)) :
                                d.StructIn \notin AvailableIn(tree))

\* C25 (accessor compatibility check): on every resolved tree,
\* validateNestedInterfaceCompatibility returns an error if and only if a
\* composite reference below the root has a descendant whose entity is not
\* available in the row of the query; the error names the first such
\* composite in pre-order, every missing entity of it, and the root.
AccessorCompatibility ==
    \A k \in 1..Len(AllItems) :
        AllItems[k].HasRootStructData =>
            LET tree == AllItems[k].RootStructData
                err == validateNestedInterfaceCompatibility(tree, AllItems[k].RootStructName)
                bad == IncompatibleNodes(tree)
            IN /\ err.kind # "none" <=> bad # <<>>
               /\ bad # <<>> =>
                     /\ err.composite = bad[1].StructOut
                     /\ err.root = AllItems[k].RootStructName
                     /\ Range(err.missing)
                           = {d.StructIn : d \in Range(NodesOf(bad[1].NestedStructs))}
                             \ AvailableIn(tree)

\* one resolved tree is rejected by the check and another, with a composite
\* reference that has children, is accepted
AccessorCompatibilityWitness ==
    \E j, k \in 1..Len(AllItems) :
        /\ AllItems[j].HasRootStructData /\ AllItems[k].HasRootStructData
        /\ validateNestedInterfaceCompatibility(
               AllItems[j].RootStructData, AllItems[j].RootStructName).kind # "none"
        /\ validateNestedInterfaceCompatibility(
               AllItems[k].RootStructData, AllItems[k].RootStructName).kind = "none"
        /\ \E n \in Range(NodesOf(AllItems[k].RootStructData.NestedStructs)) :
               n.IsComposite /\ Len(n.NestedStructs) > 0

\* C27 -- Resolution never crashes on a missing registry entry:
\* buildNestedStructData returns a resolved tree or an error value, and never
\* dereferences a nil entry of compositeStructRegistry.
NoNilRegistryEntry ==
    ~(phase = "crashed" /\ failure.kind = "nil pointer dereference")

\* the declarations of a file whose query exists, in order
FoundConfigs(k) ==
    LET known(c) == \E i \in 1..Len(Queries) : Queries[i].MethodName = c.Query
                                               \/ Queries[i].SourceName = c.Query
    IN SelectSeq(nested[k].Configs, known)

\* the struct_root a declaration claims
ClaimedRoot(c) == IF c.StructRoot = "" THEN c.Query \o "Group" ELSE c.StructRoot

\* the items built so far for file k
ItemsBuilt(k) ==
    IF k = fileIndex /\ phase \in {"items", "failed", "crashed"}
    THEN nestedDataItems ELSE nested[k].NestedDataItems

\* the earlier declarations of the file that claim the struct_root of the i-th
EarlierClaims(k, i) ==
    {j \in 1..(i - 1) : ClaimedRoot(FoundConfigs(k)[j]) = ClaimedRoot(FoundConfigs(k)[i])}

\* C28 -- Wrapper reuse within one source file: the first declaration of a
\* file that claims a struct_root gets a full item with a resolved tree; a
\* later declaration of the file that claims it for a different query gets a
\* wrapper with no tree, which casts to the query of the first declaration.
WrapperReuse ==
    \A k \in 1..Len(nested) :
        /\ Len(ItemsBuilt(k)) <= Len(FoundConfigs(k))
        /\ \A i \in 1..Len(ItemsBuilt(k)) :
              LET item == ItemsBuilt(k)[i]
                  cfg == FoundConfigs(k)[i]
                  earlier == EarlierClaims(k, i)
                  first == CHOOSE j \in earlier : \A l \in earlier : j <= l
              IN /\ earlier = {} =>
                        /\ item.HasRootStructData
                        /\ item.RootStructData # <<>>
                        /\ item.RootStructData.StructOut = ClaimedRoot(cfg)
                        /\ item.CastToQueryName = ""
                 /\ (earlier # {} /\ FoundConfigs(k)[first].Query # cfg.Query) =>
                        /\ ~item.HasRootStructData
                        /\ item.RootStructData = <<>>
                        /\ item.CastToQueryName = FoundConfigs(k)[first].Query
                        /\ item.Query = cfg.Query

WrapperReuseWitness ==
    /\ phase = "populated"
    /\ \E k \in 1..Len(nested) :
          /\ Len(nested[k].NestedDataItems) >= 2
          /\ nested[k].NestedDataItems[1].HasRootStructData
          /\ ~nested[k].NestedDataItems[2].HasRootStructData
          /\ nested[k].NestedDataItems[2].CastToQueryName = nested[k].NestedDataItems[1].Query
          /\ nested[k].NestedDataItems[2].Query # nested[k].NestedDataItems[1].Query

\* the fragment declared under a name
FragmentNamed(name) == CHOOSE f \in Range(options.Composites) : f.Name = name

RECURSIVE ExpansionWalk(_, _)
\* the resolved nodes are those of the group nodes, one for one; a node
\* resolved as a composite reference takes its types and its children from
\* the fragment its struct_out names
ExpansionWalk(nodes, configs) ==
    /\ Len(nodes) = Len(configs)
    /\ \A i \in 1..Len(nodes) :
          LET n == nodes[i]
              c == configs[i]
          IN IF n.IsComposite
             THEN /\ \E f \in Range(options.Composites) : f.Name = c.StructOut
                  /\ LET F == FragmentNamed(c.StructOut)
                     IN /\ n.StructOut = F.Name
                        /\ n.StructIn = F.StructRootIn
                        /\ n.RowFieldName = c.StructIn
                        /\ Len(n.NestedStructs) = Len(F.Group)
                        /\ \A j \in 1..Len(n.NestedStructs) :
                              /\ n.NestedStructs[j].RowFieldName = F.Group[j].StructIn
                              /\ n.NestedStructs[j].StructOut = F.Group[j].StructOut
                        /\ ExpansionWalk(n.NestedStructs, F.Group)
             ELSE ExpansionWalk(n.NestedStructs, c.Group)

\* the group node that buildNestedData makes of a declaration
RootNodeOf(c) ==
    Node(ClaimedRoot(c), ClaimedRoot(c), c.IsComposite, c.Group)

\* C30 -- Composite reference expansion: every node resolved as a composite
\* reference to a registered fragment F has its children built, in order,
\* from the declared group of F, whatever group the referencing node
\* carries; its input type is the struct_root_in of F, its row field name
\* the struct_in of the referencing node, and its output type the name of F.
CompositeExpansion ==
    \A k \in 1..Len(AllItems) :
        AllItems[k].HasRootStructData =>
            \A c \in DeclarationsOf(AllItems[k]) :
                ExpansionWalk(<<AllItems[k].RootStructData>>, <<RootNodeOf(c)>>)

\* a declaration that refers to a fragment and carries a group of its own,
\* resolved with the children of the fragment, two of them or more
CompositeExpansionWitness ==
    \E k \in 1..Len(AllItems) :
        /\ AllItems[k].HasRootStructData
        /\ AllItems[k].RootStructData.IsComposite
        /\ AllItems[k].RootStructData.StructIn # AllItems[k].RootStructData.RowFieldName
        /\ \E c \in DeclarationsOf(AllItems[k]) :
              /\ c.Group # <<>>
              /\ AllItems[k].RootStructData.NestedStructs # <<>>
              /\ AllItems[k].RootStructData.NestedStructs[1].RowFieldName # c.Group[1].StructIn
        /\ \E n \in Range(AllNodes) : n.IsComposite /\ Len(n.NestedStructs) >= 2

\* the fragments that a fragment's composite child names but nobody declares
DanglingNames ==
    UNION {CompositeChildrenOf(a) : a \in FragmentNames} \ FragmentNames

\* C10 (unregistered fragment): a composite reference to a fragment that is
\* not in the registry makes generation fail with an error value naming the
\* missing fragment and the referrer; the run never dereferences the
\* missing registry entry.
UnregisteredFragment ==
    /\ (AfterRegistry /\ DanglingNames # {}) =>
          /\ phase = "failed"
          /\ failure.kind = "composite not found"
          /\ failure.missing \in DanglingNames
          /\ "referrer" \in DOMAIN failure
    /\ ~(failure.kind = "nil pointer dereference" /\ failure.line = 250)

-----------------------------------------------------------------------------
(* Properties of the generated grouping function (SpecGroup) *)

IDsOf(h, cells) == [i \in 1..Len(cells) |-> h[cells[i]].ID]

RECURSIVE FirstSeenFrom(_, _, _)
FirstSeenFrom(rs, i, acc) ==
    IF i > Len(rs) THEN acc
    ELSE FirstSeenFrom(rs, i + 1,
             IF rs[i].ID \in Range(acc) THEN acc ELSE Append(acc, rs[i].ID))

\* the distinct root keys of the rows, in the order of their first occurrence
FirstSeenRootKeys(rs) == FirstSeenFrom(rs, 1, <<>>)

\* C6 -- Dedup guarantee: under one parent instance, a child instance with a
\* given key is created and appended at most once, whatever rows repeat the
\* (parent key, child key) combination and in whatever order: no two append
\* events of the run name the same parent instance and key, and no nested
\* field of a parent instance holds two instances with the same ID.
DedupGuarantee ==
    /\ \A i, j \in 1..Len(appendLog) :
          (i < j /\ appendLog[i].op = "append" /\ appendLog[j].op = "append"
                 /\ appendLog[i].parent = appendLog[j].parent)
              => appendLog[i].key # appendLog[j].key
    /\ \A p \in 1..Len(heap) :
          \A i, j \in 1..Len(heap[p].field) :
              i # j => heap[heap[p].field[i]].ID # heap[heap[p].field[j]].ID

\* C6 witness: three rows repeat one (author, book, review) combination of
\* slice nodes, out of order with another book, and the call has returned.
DedupWitness ==
    /\ pc = "done"
    /\ shape = [Book |-> TRUE, Review |-> TRUE]
    /\ Len(rows) = 3
    /\ rows[1] = rows[3] /\ rows[1].Book # NULL /\ rows[1].Review # NULL
    /\ rows[2].ID = rows[1].ID /\ rows[2].Book \notin {NULL, rows[1].Book}
    /\ Len(appendLog) = 3

\* C7 -- Order preservation: the returned roots list every distinct root key
\* once, in the order in which the keys are first met in the rows (so that
\* two calls on the same rows agree).
OrderPreservation ==
    pc = "done" => IDsOf(heap, result) = FirstSeenRootKeys(rows)

ScenarioRows ==
    << [ID |-> "A1", Book |-> "B1", Review |-> "R1"],
       [ID |-> "A1", Book |-> "B1", Review |-> "R2"],
       [ID |-> "A1", Book |-> "B2", Review |-> NULL] >>

ScenarioRun ==
    /\ pc = "done"
    /\ shape = [Book |-> TRUE, Review |-> TRUE]
    /\ rows = ScenarioRows

\* C8 -- End-to-end scenario: on the rows (A1,B1,R1), (A1,B1,R2),
\* (A1,B2,no review) of the tree Author -> Books -> Reviews the function
\* returns exactly one author, with Books [B1, B2] in that order, B1 with
\* Reviews [R1, R2] in that order and B2 without reviews.
EndToEndScenario ==
    ScenarioRun =>
        /\ Len(result) = 1
        /\ heap[result[1]].ID = "A1"
        /\ LET books == heap[result[1]].field
           IN /\ IDsOf(heap, books) = <<"B1", "B2">>
              /\ IDsOf(heap, heap[books[1]].field) = <<"R1", "R2">>
              /\ heap[books[2]].field = <<>>

\* C8 witness: the scenario has been run to its end.
EndToEndWitness == ScenarioRun /\ Len(heap) = 5

\* the instance of the root key of a row, and the instance that its nested
\* field holds for a key (0 when it holds none)
RootOfRow(r) == rootMap[r.ID]
HeldFor(parent, key) ==
    LET hits == {c \in Range(heap[parent].field) : heap[c].ID = key}
    IN IF hits = {} THEN 0 ELSE CHOOSE c \in hits : TRUE

\* an instance was created under the parent for the key
CreatedUnder(parent, key) ==
    \E e \in 1..Len(appendLog) : appendLog[e].parent = parent /\ appendLog[e].key = key

\* C23 -- Per-parent scoping: no instance is held by the nested fields of
\* two parent instances, and every parent instance for which a row carries a
\* child key had an instance of its own created for that key, also when
\* another parent has a child with the same key.
PerParentScoping ==
    /\ \A p, q \in 1..Len(heap) :
          p # q => Range(heap[p].field) \cap Range(heap[q].field) = {}
    /\ \A i \in 1..Len(rows) :
          rows[i].Book # NULL =>
              /\ CreatedUnder(RootOfRow(rows[i]), rows[i].Book)
              /\ (rows[i].Review # NULL /\ shape.Book) =>
                     CreatedUnder(HeldFor(RootOfRow(rows[i]), rows[i].Book), rows[i].Review)

\* C23 witness: two authors have the same book key and, under it, the same
\* review key; the call has returned with two book and two review instances.
PerParentScopingWitness ==
    /\ pc = "done"
    /\ shape = [Book |-> TRUE, Review |-> TRUE]
    /\ Len(rows) = 2
    /\ rows[1].ID # rows[2].ID
    /\ rows[1].Book = rows[2].Book /\ rows[1].Book # NULL
    /\ rows[1].Review = rows[2].Review /\ rows[1].Review # NULL
    /\ Len(heap) = 6

\* C24 -- Single-value children: the field of a node with is_slice = false
\* is set at most once on a parent instance over the whole row sequence: no
\* two set events of the run name the same parent instance.
SingleValueSetOnce ==
    \A i, j \in 1..Len(appendLog) :
        (i < j /\ appendLog[i].op = "set" /\ appendLog[j].op = "set")
            => appendLog[i].parent # appendLog[j].parent

-----------------------------------------------------------------------------
(* Properties of the naming engine (SpecNaming) *)

\* C9 -- Idempotent naming: applying ToPascalCaseWithInitialisms to its own
\* result gives that result again, for every identifier.
IdempotentNaming == npc = "twice" => twice = once

RECURSIVE CamelTokens(_, _, _)
\* the pieces of s between its lower-to-upper boundaries, from index i on,
\* cur being the piece in work
CamelTokens(s, i, cur) ==
    IF i > Len(s) THEN IF cur = <<>> THEN <<>> ELSE <<cur>>
    ELSE IF cur # <<>> /\ IsLower(cur[Len(cur)]) /\ IsUpper(s[i])
         THEN <<cur>> \o CamelTokens(s, i + 1, <<s[i]>>)
         ELSE CamelTokens(s, i + 1, Append(cur, s[i]))

\* the word tokens of an identifier: split at its underscores when it has
\* some, at its lower-to-upper boundaries otherwise
WordTokens(w) ==
    IF \E i \in 1..Len(w) : w[i] = "_" THEN Split(w) ELSE CamelTokens(w, 1, <<>>)

\* the tokens but the last
Earlier(tokens) == SubSeq(tokens, 1, Len(tokens) - 1)

\* the tokens with the last one replaced
WithLast(tokens, last) == [tokens EXCEPT ![Len(tokens)] = last]

\* C26 -- Last-token inflection: the empty string maps to itself, and for a
\* Pascal-case identifier of two or more word tokens the plural and the
\* singular are ToPascalCaseWithInitialisms of the tokens with only the last
\* one inflected; up to casing they are the earlier tokens followed by the
\* inflected last token.
LastTokenInflection ==
    npc = "inflected" =>
        /\ word = <<>> => (inflected.plural = <<>> /\ inflected.singular = <<>>)
        /\ (word # <<>> /\ IsUpper(word[1]) /\ Len(WordTokens(word)) >= 2) =>
              LET tokens == WordTokens(word)
                  last == tokens[Len(tokens)]
              IN /\ inflected.plural = ToPascalCaseWithInitialisms(
                        JoinUnderscore(WithLast(tokens, flectPluralize(last))))
                 /\ inflected.singular = ToPascalCaseWithInitialisms(
                        JoinUnderscore(WithLast(tokens, flectSingularize(last))))
                 /\ ToLower(inflected.plural) =
                        ToLower(Concat(Earlier(tokens)) \o flectPluralize(last))
                 /\ ToLower(inflected.singular) =
                        ToLower(Concat(Earlier(tokens)) \o flectSingularize(last))

LastTokenInflectionWitness ==
    /\ npc = "inflected"
    /\ word # <<>> /\ IsUpper(word[1])
    /\ \A i \in 1..Len(word) : word[i] # "_"
    /\ Len(WordTokens(word)) >= 3
    /\ inflected.plural = inflected.singular \o <<"s">>

-----------------------------------------------------------------------------
(* Specifications *)

SpecNaming == NamingInit /\ [][NamingNext]_vars
SpecGroup  == GroupInit /\ [][GroupNext]_vars
Spec       == GenInit /\ [][GenNext]_vars

====
